---- MODULE Spec2Model ----
(***************************************************************************)
(* Orchestration core of the AI multi-agent system:                        *)
(*   orchestrator.py            Orchestrator (gate, pipeline runs, batches) *)
(*   services/message_pull_service.py   aggregated pull and polling loop    *)
(*   channels/*.py              per-channel pull with the seen-id sets      *)
(*                                                                         *)
(* Three compositions are explored:                                        *)
(*   Spec      the Orchestrator called by its clients: pipeline runs behind *)
(*             the semaphore, process_message and process_messages;         *)
(*   LoopSpec  the Orchestrator in polling mode: start, stop and the loop   *)
(*             of start_polling calling process_messages;                   *)
(*   PollSpec  the MessagePullService: the adapters' pulls, the aggregated  *)
(*             pull and start_polling with an arbitrary async callback.     *)
(* FairLoopSpec and FairPollSpec add the progress of every awaited call.    *)
(***************************************************************************)
EXTENDS Integers, Sequences, FiniteSets, TLC

\* ------------------------------------------------------------------ bounds
MaxN == 2         \* largest configured max_concurrent_tasks explored
MaxRuns == 2      \* process_message coroutines alive at the same time
MaxId == 2        \* provider message ids are 1..MaxId
MaxResp == 2      \* longest id list of one provider response

VARIABLES
    max_concurrent_tasks,  \* Orchestrator.max_concurrent_tasks
    semaphore,             \* Orchestrator.semaphore: its free slots
    runs,                  \* slot -> a process_message coroutine that is alive
    call,                  \* the process_messages call that is alive, if any
    is_running,            \* MessagePullService.is_running
    lpc,                   \* position of the start_polling coroutine
    processed_messages,    \* channel -> the adapter's processed_messages set
    messages,              \* start_polling's local `messages` of the iteration
    pull_results,          \* gather's result list of the aggregated pull
    pulled,                \* the <<channel, id>> pairs that earlier pulls have returned
    repeated,              \* the provider repeated an id in the pull of this iteration
    iter_fault,            \* what the callback raised into the loop in this iteration
    last_call              \* the operation called on its own last: its arguments and result

vars == <<max_concurrent_tasks, semaphore, runs, call, is_running, lpc,
          processed_messages, messages, pull_results, pulled, repeated, iter_fault,
          last_call>>

orchVars == <<max_concurrent_tasks, semaphore, runs, call>>
pullVars == <<processed_messages, messages, pull_results, pulled, repeated, iter_fault,
              last_call>>

\* ------------------------------------------------------------------ values
Channels == {"email", "whatsapp", "teams"}     \* keys send_response dispatches on
UnknownChannel == "alpha"                      \* a key no adapter is registered for
DirectChannels == {"email", UnknownChannel}    \* keys of the messages callers pass in
PolledChannels == {"email", "whatsapp"}        \* adapters whose pull yields messages

NoneVal == [kind |-> "None"]
CancelledError == [kind |-> "CancelledError"]  \* a BaseException, not an Exception
ExceptionVal == [kind |-> "Exception"]

IsException(result) == result.kind = "Exception"   \* isinstance(result, Exception)

Message(id, ch) == [message_id |-> id, channel |-> ch, sender |-> id]

ClassificationOf(m) == [kind |-> "classification", message_id |-> m.message_id]
TaskOf(m) == [kind |-> "task", message_id |-> m.message_id]
ExecutionOf(m, st) ==
    [kind |-> "execution", execution_status |-> st, user_response |-> "response to " \o ToString(m.message_id)]
ApologyText == "An error occurred while processing your request."
FailedExecution ==
    [kind |-> "execution", execution_status |-> "failed", user_response |-> ApologyText]

\* no operation has been called on its own, or its result has been received
NoCall == [op |-> "none"]

\* the messages callers pass in
CallerMessages == {Message(id, ch) : id \in 1..MaxId, ch \in DirectChannels}

\* (mutant) an error result that keeps the status of a failed execution
CreateErrorResultFailed(m, err) ==
    [kind |-> "outcome", status |-> "failed", message_id |-> m.message_id,
     channel |-> m.channel, error |-> err, classification |-> NoneVal,
     task |-> NoneVal, execution |-> NoneVal, response_sent |-> FALSE]

\* Orchestrator._create_error_result
CreateErrorResult(m, err) ==
    [kind |-> "outcome", status |-> "error", message_id |-> m.message_id,
     channel |-> m.channel, error |-> err, classification |-> NoneVal,
     task |-> NoneVal, execution |-> NoneVal, response_sent |-> FALSE]

\* (mutant) a result that reports a run whose response was not delivered as an
\* error
CompileResultOrError(m, c, t, e, sent) ==
    [kind |-> "outcome",
     status |-> IF ~sent THEN "error"
                ELSE IF e.execution_status = "success" THEN "success" ELSE "failed",
     message_id |-> m.message_id, channel |-> m.channel, error |-> "",
     classification |-> IF sent THEN c ELSE NoneVal, task |-> IF sent THEN t ELSE NoneVal,
     execution |-> IF sent THEN e ELSE NoneVal, response_sent |-> sent]

\* (mutant) a result compiled from a message that all runs share
CompileResultShared(m, c, t, e, sent) ==
    [kind |-> "outcome",
     status |-> IF e.execution_status = "success" THEN "success" ELSE "failed",
     message_id |-> MaxId, channel |-> m.channel, error |-> "",
     classification |-> c, task |-> t, execution |-> e, response_sent |-> sent]

\* the result dictionary compiled at the end of process_message
CompileResult(m, c, t, e, sent) ==
    [kind |-> "outcome",
     status |-> IF e.execution_status = "success" THEN "success" ELSE "failed",
     message_id |-> m.message_id, channel |-> m.channel, error |-> "",
     classification |-> c, task |-> t, execution |-> e, response_sent |-> sent]

\* MessagePullService.send_response: the adapter named by the channel key decides,
\* an adapter's exception or an unknown key gives False
SendResponse(channel, adapter) ==
    IF channel \in Channels THEN adapter = "true" ELSE FALSE

\* a process_message coroutine: its message, who awaits it ("direct": a caller,
\* "gather": the process_messages call), its position, its local variables, the
\* send_response calls it made, the stages that raised an Exception in it, the
\* stage wrappers it has called so far (in the order of the calls), what each
\* of them did, and how it ended (the returned dictionary, or the exception it
\* propagated)
NewRun(m, origin) ==
    [msg |-> m, origin |-> origin, pc |-> "waiting",
     classification |-> NoneVal, task |-> NoneVal, execution |-> NoneVal,
     sends |-> <<>>, faults |-> {}, invoked |-> <<>>, did |-> <<>>,
     outcome |-> NoneVal, raised |-> NoneVal]

FreeRun == [NewRun(NoneVal, "direct") EXCEPT !.pc = "free"]
FreeCall == [messages |-> <<>>, tasks |-> <<>>, origin |-> "free",
             returned |-> FALSE, results |-> <<>>]

RunSlots == 1..MaxRuns
Alive == {r \in RunSlots : runs[r].pc # "free"}
FreeSlots == RunSlots \ Alive

Stages == {"classifying", "creating", "executing", "responding"}
InStage(r) == runs[r].pc \in Stages
Finished(r) == runs[r].pc \in {"done", "raised"}

\* the i-th free slot, counted from the lowest
NthFree(i) == CHOOSE s \in FreeSlots : Cardinality({t \in FreeSlots : t < s}) = i - 1

\* ------------------------------------------------- the gate (asyncio.Semaphore)
\* (mutant) the gate admits every caller
CanAcquireAlways == TRUE

\* `async with self.semaphore` enters only while a slot is free
CanAcquire == semaphore > 0

\* (mutant) acquire and release written without try/finally: an exception that
\* leaves the block keeps the slot
SemaphoreLeakOnRaise(how) == IF how = "raise" THEN semaphore ELSE semaphore + 1

\* (mutant) a gate whose slots are never given back
SemaphoreKept(how) == semaphore

\* `async with` gives the slot back however the block is left
SemaphoreAfterExit(how) == semaphore + 1

\* ------------------------------------------------- stage wrappers
\* What the awaited call did: "ok", "falsy" (returned None or an empty value),
\* "exc" (raised an Exception), "cancel" (raised asyncio.CancelledError).
Return(v) == [kind |-> "return", value |-> v]
Raise(e) == [kind |-> "raise", value |-> e]

\* Orchestrator._classify_message
ClassifyMessage(m, o) ==
    CASE o = "ok" -> Return(ClassificationOf(m))
      [] o = "falsy" -> Return(NoneVal)
      [] o = "exc" -> Return(NoneVal)
      [] o = "cancel" -> Raise(CancelledError)

\* Orchestrator._create_task
CreateTask(m, o) ==
    CASE o = "ok" -> Return(TaskOf(m))
      [] o = "falsy" -> Return(NoneVal)
      [] o = "exc" -> Return(NoneVal)
      [] o = "cancel" -> Raise(CancelledError)

\* (mutant) an _execute_task without its except clause
ExecuteTaskUncaught(m, o) ==
    CASE o = "success" -> Return(ExecutionOf(m, "success"))
      [] o = "failed" -> Return(ExecutionOf(m, "failed"))
      [] o = "nondict" -> Return(NoneVal)
      [] o = "exc" -> Raise(ExceptionVal)
      [] o = "cancel" -> Raise(CancelledError)

\* Orchestrator._execute_task; "nondict": the agent returned None
ExecuteTask(m, o) ==
    CASE o = "success" -> Return(ExecutionOf(m, "success"))
      [] o = "failed" -> Return(ExecutionOf(m, "failed"))
      [] o = "nondict" -> Return(NoneVal)
      [] o = "exc" -> Return(FailedExecution)
      [] o = "cancel" -> Raise(CancelledError)

\* (mutant) process_message without its except clause
CaughtNothing(e) == FALSE

\* `except Exception as e` of process_message: what it catches
Caught(e) == IsException(e)

\* ------------------------------------------------- process_message, step by step
\* (mutant) a wrapper that calls its stage a second time (a retry)
StageEnteredTwice(run, pc, stage) ==
    [run EXCEPT !.pc = pc, !.invoked = @ \o <<stage, stage>>]

\* the run calls the wrapper of a stage and awaits it
StageEntered(run, pc, stage) ==
    [run EXCEPT !.pc = pc, !.invoked = Append(@, stage)]

\* the awaited wrapper is over: o is what its stage did
StageLeft(run, o) == [run EXCEPT !.did = Append(@, o)]

\* the coroutine ends: its frame (the local variables) is gone
Ended(run, pc, out, exc, fault) ==
    [run EXCEPT !.pc = pc, !.outcome = out, !.raised = exc, !.faults = @ \cup fault,
                !.classification = NoneVal, !.task = NoneVal, !.execution = NoneVal]

\* run r, having come as far as `run`, returns out
ReturnedFrom(r, run, out, fault) ==
    /\ runs' = [runs EXCEPT ![r] = Ended(run, "done", out, NoneVal, fault)]
    /\ semaphore' = SemaphoreAfterExit("return")

\* an exception leaves the try block of run r, which has come as far as `run`:
\* caught and turned into an error result, or propagated to the awaiter through
\* the `async with`
ThrownFrom(r, run, e, fault) ==
    IF Caught(e)
    THEN ReturnedFrom(r, run, CreateErrorResult(runs[r].msg, "exception"), fault)
    ELSE /\ runs' = [runs EXCEPT ![r] = Ended(run, "raised", NoneVal, e, fault)]
         /\ semaphore' = SemaphoreAfterExit("raise")

\* the same, at the return of the awaited wrapper whose stage did o
ReturnedAfter(r, o, out, fault) == ReturnedFrom(r, StageLeft(runs[r], o), out, fault)
Thrown(r, o, e, fault) == ThrownFrom(r, StageLeft(runs[r], o), e, fault)

FaultOf(stage, o) == IF o = "exc" THEN {stage} ELSE {}

\* (mutant) a run that goes on with whatever the stage gave
NeverFalsy(v) == FALSE

\* `if not classification_result`, `if not task_data`
Falsy(v) == v = NoneVal \/ (v.kind = "dict" /\ \A k \in DOMAIN v.has : ~v.has[k])

\* (mutant) a run that calls its first stage without taking a slot
CallBeforeAcquire(r) ==
    /\ runs[r].pc = "waiting"
    /\ runs' = [runs EXCEPT ![r] = StageEntered(@, "classifying", "classify")]
    /\ UNCHANGED <<max_concurrent_tasks, semaphore, call, is_running, lpc, pullVars>>

\* `async with self.semaphore` is entered, and the first stage called
Acquire(r) ==
    /\ runs[r].pc = "waiting"
    /\ CanAcquire
    /\ semaphore' = semaphore - 1
    /\ runs' = [runs EXCEPT ![r] = StageEntered(@, "classifying", "classify")]
    /\ UNCHANGED <<max_concurrent_tasks, call, is_running, lpc, pullVars>>

ClassifyStep(r, o) ==
    /\ runs[r].pc = "classifying"
    /\ LET w == ClassifyMessage(runs[r].msg, o) IN
         IF w.kind = "raise" THEN Thrown(r, o, w.value, {})
         ELSE IF Falsy(w.value)
              THEN ReturnedAfter(r, o, CreateErrorResult(runs[r].msg, "Classification failed"),
                                 FaultOf("classify", o))
              ELSE /\ runs' = [runs EXCEPT ![r] =
                                 [StageEntered(StageLeft(@, o), "creating", "create")
                                  EXCEPT !.classification = w.value]]
                   /\ UNCHANGED semaphore
    /\ UNCHANGED <<max_concurrent_tasks, call, is_running, lpc, pullVars>>

CreateStep(r, o) ==
    /\ runs[r].pc = "creating"
    /\ LET w == CreateTask(runs[r].msg, o) IN
         IF w.kind = "raise" THEN Thrown(r, o, w.value, {})
         ELSE IF Falsy(w.value)
              THEN ReturnedAfter(r, o, CreateErrorResult(runs[r].msg, "Task creation failed"),
                                 FaultOf("create", o))
              ELSE /\ runs' = [runs EXCEPT ![r] =
                                 [StageEntered(StageLeft(@, o), "executing", "execute")
                                  EXCEPT !.task = w.value]]
                   /\ UNCHANGED semaphore
    /\ UNCHANGED <<max_concurrent_tasks, call, is_running, lpc, pullVars>>

\* (mutant) a response that always goes out by e-mail
SendCallByEmail(m, e) ==
    [channel |-> "email", recipient |-> m.sender, content |-> e.user_response,
     result |-> "pending"]

\* the call message_service.send_response(channel, recipient, content, metadata)
\* that _send_response makes for message m and execution result e
SendCall(m, e) ==
    [channel |-> m.channel, recipient |-> m.sender, content |-> e.user_response,
     result |-> "pending"]

\* _execute_task returns and _send_response calls the service; with a result that
\* is no dictionary _send_response is called and fails before that call (it
\* returns False), and the compilation of the result raises AttributeError
ExecuteStep(r, o) ==
    /\ runs[r].pc = "executing"
    /\ LET w == ExecuteTask(runs[r].msg, o) IN
         IF w.kind = "raise" THEN Thrown(r, o, w.value, {})
         ELSE IF w.value = NoneVal
              THEN ThrownFrom(r, StageLeft(StageEntered(StageLeft(runs[r], o),
                                                        "responding", "respond"), "unsent"),
                              ExceptionVal, {"run"})
              ELSE /\ runs' = [runs EXCEPT ![r] =
                                 [StageEntered(StageLeft(@, o), "responding", "respond")
                                  EXCEPT !.execution = w.value,
                                           !.faults = @ \cup FaultOf("execute", o),
                                           !.sends = Append(@, SendCall(runs[r].msg, w.value))]]
                   /\ UNCHANGED semaphore
    /\ UNCHANGED <<max_concurrent_tasks, call, is_running, lpc, pullVars>>

\* what the adapter's send_message can do when send_response awaits it; for a
\* key without adapter nothing is awaited
AdapterOutcomes(channel) ==
    IF channel \in Channels THEN {"true", "false", "exc", "cancel"} ELSE {"none"}

\* message_service.send_response returns (a: what the adapter's send did)
RespondStep(r, a) ==
    /\ runs[r].pc = "responding"
    /\ a \in AdapterOutcomes(runs[r].msg.channel)
    /\ IF a = "cancel" THEN Thrown(r, a, CancelledError, {})
       ELSE LET sent == SendResponse(runs[r].msg.channel, a) IN
            /\ runs' = [runs EXCEPT ![r] =
                   [Ended(StageLeft(@, a), "done",
                          CompileResult(@.msg, @.classification, @.task, @.execution, sent),
                          NoneVal, FaultOf("send", a))
                    EXCEPT !.sends[1].result = IF sent THEN "true" ELSE "false"]]
            /\ semaphore' = SemaphoreAfterExit("return")
    /\ UNCHANGED <<max_concurrent_tasks, call, is_running, lpc, pullVars>>

\* a caller awaits process_message(message): the coroutine starts for whatever
\* message it is given
ProcessMessageOf(m) ==
    /\ FreeSlots # {}
    /\ runs' = [runs EXCEPT ![NthFree(1)] = NewRun(m, "direct")]
    /\ UNCHANGED <<max_concurrent_tasks, semaphore, call, is_running, lpc, pullVars>>

\* a caller awaits process_message(message) directly, with a message that no
\* run alive carries (it is named by the slot its coroutine takes)
ProcessMessage(ch) ==
    /\ FreeSlots # {}
    /\ ProcessMessageOf(Message(NthFree(1), ch))

\* that caller has received the result, or the exception
ProcessMessageReturn(r) ==
    /\ Finished(r)
    /\ runs[r].origin = "direct"
    /\ runs' = [runs EXCEPT ![r] = FreeRun]
    /\ UNCHANGED <<max_concurrent_tasks, semaphore, call, is_running, lpc, pullVars>>

\* ------------------------------------------------- process_messages
\* what asyncio.gather(..., return_exceptions=True) holds for task r
GatherResult(r) == IF runs[r].pc = "done" THEN runs[r].outcome ELSE runs[r].raised

\* the loop over enumerate(results) of process_messages
ProcessedResults(msgs, results) ==
    [idx \in 1..Len(results) |->
        IF IsException(results[idx])
        THEN CreateErrorResult(msgs[idx], "exception")
        ELSE results[idx]]

\* the messages of a new batch: one per channel key given, named by the slot
\* its coroutine will take
BatchMessages(chs) == [i \in 1..Len(chs) |-> Message(NthFree(i), chs[i])]

\* tasks = [self.process_message(msg) for msg in messages]; gather starts them
SpawnCall(msgs, origin) ==
    LET slot == [i \in 1..Len(msgs) |-> NthFree(i)]
    IN  /\ runs' = [r \in RunSlots |->
                      IF \E i \in 1..Len(msgs) : slot[i] = r
                      THEN NewRun(msgs[CHOOSE i \in 1..Len(msgs) : slot[i] = r], "gather")
                      ELSE runs[r]]
        /\ call' = [messages |-> msgs, tasks |-> slot, origin |-> origin,
                    returned |-> FALSE, results |-> <<>>]

\* (mutant) a gather with a deadline: it is over when the deadline is
GatherTimedOut == TRUE

AllFinished == \A i \in 1..Len(call.tasks) : Finished(call.tasks[i])

\* processed_results, from gather's list
ResultsOf ==
    ProcessedResults(call.messages,
                     [i \in 1..Len(call.tasks) |-> GatherResult(call.tasks[i])])

\* the tasks of the call are released
RunsWithoutCall == [r \in RunSlots |-> IF runs[r].origin = "gather" /\ runs[r].pc # "free"
                                       THEN FreeRun ELSE runs[r]]

\* a caller awaits process_messages(messages): one coroutine per element of the
\* list, whatever the elements are
ProcessMessagesOf(msgs) ==
    /\ Len(msgs) >= 1
    /\ Len(msgs) <= Cardinality(FreeSlots)
    /\ call.origin = "free"
    /\ SpawnCall(msgs, "direct")
    /\ UNCHANGED <<max_concurrent_tasks, semaphore, is_running, lpc, pullVars>>

\* a caller awaits process_messages(messages) directly, with messages that no
\* run alive carries
ProcessMessages(chs) ==
    /\ Len(chs) <= Cardinality(FreeSlots)
    /\ ProcessMessagesOf(BatchMessages(chs))

\* gather is complete and process_messages returns processed_results
ProcessMessagesReturn ==
    /\ call.origin = "direct"
    /\ ~call.returned
    /\ AllFinished
    /\ call' = [call EXCEPT !.returned = TRUE, !.results = ResultsOf]
    /\ UNCHANGED <<max_concurrent_tasks, semaphore, runs, is_running, lpc, pullVars>>

\* that caller has received the list; the tasks and their results are released
ResultsTaken ==
    /\ call.origin = "direct"
    /\ call.returned
    /\ call' = FreeCall
    /\ runs' = RunsWithoutCall
    /\ UNCHANGED <<max_concurrent_tasks, semaphore, is_running, lpc, pullVars>>

\* ------------------------------------------------- start / stop and the loop
\* (mutant) a start that honours a stop requested before it
StartKeepingFlag ==
    /\ lpc \in {"idle", "returned", "raised"}
    /\ is_running' = (lpc = "idle")
    /\ lpc' = "top"
    /\ UNCHANGED <<orchVars, pullVars>>

\* Orchestrator.start -> start_polling(self.process_messages), up to the first test
Start ==
    /\ lpc \in {"idle", "returned", "raised"}
    /\ is_running' = TRUE
    /\ lpc' = "top"
    /\ UNCHANGED <<orchVars, pullVars>>

\* (mutant) a stop that cancels the iteration in progress
StopAborting ==
    /\ is_running' = FALSE
    /\ runs' = [r \in RunSlots |-> FreeRun]
    /\ call' = FreeCall
    /\ semaphore' = max_concurrent_tasks
    /\ lpc' = IF lpc = "callback" THEN "sleeping" ELSE lpc
    /\ UNCHANGED <<max_concurrent_tasks, pullVars>>

\* Orchestrator.stop -> stop_polling
Stop ==
    /\ is_running' = FALSE
    /\ UNCHANGED <<orchVars, lpc, pullVars>>

\* (mutant) a loop that never reads the flag
LoopTestBlind ==
    /\ lpc = "top"
    /\ lpc' = "pulling"
    /\ UNCHANGED <<orchVars, is_running, pullVars>>

\* `while self.is_running`
LoopTest ==
    /\ lpc = "top"
    /\ lpc' = IF is_running THEN "pulling" ELSE "returned"
    /\ UNCHANGED <<orchVars, is_running, pullVars>>

\* pull_all_messages returns to the loop, which calls process_messages when
\* the list is not empty
PullReturnsBatch(chs) ==
    /\ lpc = "pulling"
    /\ IF Len(chs) = 0
       THEN lpc' = "sleeping" /\ UNCHANGED <<runs, call>>
       ELSE lpc' = "callback" /\ SpawnCall(BatchMessages(chs), "poll")
    /\ messages' = BatchMessages(chs)
    /\ UNCHANGED <<max_concurrent_tasks, semaphore, is_running, last_call, processed_messages,
                   pull_results, pulled, repeated, iter_fault>>

\* process_messages returns to the loop; its list and the loop's `messages` are
\* not read again
CallbackReturn ==
    /\ lpc = "callback"
    /\ call.origin = "poll"
    /\ AllFinished
    /\ call' = FreeCall
    /\ runs' = RunsWithoutCall
    /\ lpc' = "sleeping"
    /\ messages' = <<>>
    /\ UNCHANGED <<max_concurrent_tasks, semaphore, is_running, last_call, processed_messages,
                   pull_results, pulled, repeated, iter_fault>>

\* asyncio.sleep(self.poll_interval) of the try block is over; the results of the
\* iteration's pull are not read again
Sleep ==
    /\ lpc = "sleeping"
    /\ lpc' = "top"
    /\ messages' = <<>>
    /\ pull_results' = <<>>
    /\ repeated' = FALSE
    /\ UNCHANGED <<orchVars, is_running, last_call, processed_messages, pulled, iter_fault>>

\* ------------------------------------------------- the adapters' pulls
\* What the provider answers to one pull.  kind: "ok" (a list of ids, in the
\* provider's order), "status" (search status not OK, HTTP status not 200), "exc"
\* (the connection or the request raises an Exception), "cancel" (the awaited
\* request raises CancelledError).  bad: the position of the id at which the pull
\* fails, Len(ids) + 1 for a failure after the loop, 0 for none; how: "skip" (the
\* fetch status is not OK) or "raise" (an Exception is raised).
Response(kind, ids, bad, how) == [kind |-> kind, ids |-> ids, bad |-> bad, how |-> how]

IdLists == UNION {[1..k -> 1..MaxId] : k \in 0..MaxResp}

EmailResponses ==
    {Response("status", <<>>, 0, "skip"), Response("exc", <<>>, 0, "raise")}
    \cup {Response("ok", ids, 0, "skip") : ids \in IdLists}
    \cup {Response("ok", ids, bad, "skip") : ids \in IdLists, bad \in 1..MaxResp}
    \cup {Response("ok", ids, bad, "raise") : ids \in IdLists, bad \in 1..(MaxResp + 1)}

WhatsAppResponses ==
    {Response("status", <<>>, 0, "skip"), Response("exc", <<>>, 0, "raise"),
     Response("cancel", <<>>, 0, "raise")}
    \cup {Response("ok", ids, 0, "skip") : ids \in IdLists}
    \cup {Response("ok", ids, bad, "raise") : ids \in IdLists, bad \in 1..MaxResp}

\* a provider response is well-formed when its failure position lies in the list
\* (or right behind it, for a failure of close/logout)
ValidResponse(resp) ==
    resp.bad <= Len(resp.ids) + (IF resp.how = "raise" /\ resp.kind = "ok" THEN 1 ELSE 0)

\* (mutant) a pull that returns its messages without recording their ids
PulledUnrecorded(seen, result) == [seen |-> {}, result |-> result]

\* what a pull leaves: the adapter's processed_messages and what gather gets
Pulled(seen, result) == [seen |-> seen, result |-> result]

\* (mutant) a pull that does not consult the seen-id set
NeverProcessed(seen, id) == FALSE

\* `if msg_id in self.processed_messages: continue`
AlreadyProcessed(seen, id) == id \in seen

\* (mutant) adapters without the except clause of pull_messages
PullCaughtNothing(e) == FALSE

\* `except Exception as e` of an adapter's pull_messages: what it catches
PullCaught(e) == IsException(e)

\* e is raised inside pull_messages: `return []` in the except clause, or the
\* exception leaves the coroutine
RaisedInPull(seen, e) ==
    IF PullCaught(e) THEN Pulled(seen, Return(<<>>)) ELSE Pulled(seen, Raise(e))

\* the loop over message_id_list of EmailChannelHandler.pull_messages, from
\* position i on, and the close/logout behind it
RECURSIVE EmailLoop(_, _, _, _)
EmailLoop(resp, i, seen, msgs) ==
    IF i > Len(resp.ids)
    THEN IF resp.bad = i THEN RaisedInPull(seen, ExceptionVal) ELSE Pulled(seen, Return(msgs))
    ELSE IF AlreadyProcessed(seen, resp.ids[i])
         THEN EmailLoop(resp, i + 1, seen, msgs)
         ELSE IF resp.bad = i
              THEN IF resp.how = "skip"
                   THEN EmailLoop(resp, i + 1, seen, msgs)
                   ELSE RaisedInPull(seen, ExceptionVal)
              ELSE EmailLoop(resp, i + 1, seen \cup {resp.ids[i]},
                             Append(msgs, Message(resp.ids[i], "email")))

\* EmailChannelHandler.pull_messages (it awaits nothing)
EmailPullMessages(seen, resp) ==
    CASE resp.kind = "ok" -> EmailLoop(resp, 1, seen, <<>>)
      [] resp.kind = "exc" -> RaisedInPull(seen, ExceptionVal)
      [] OTHER -> Pulled(seen, Return(<<>>))

\* the loop over data['messages'] of WhatsAppChannelHandler.pull_messages
RECURSIVE WhatsAppLoop(_, _, _, _)
WhatsAppLoop(resp, i, seen, msgs) ==
    IF i > Len(resp.ids)
    THEN Pulled(seen, Return(msgs))
    ELSE IF AlreadyProcessed(seen, resp.ids[i])
         THEN WhatsAppLoop(resp, i + 1, seen, msgs)
         ELSE IF resp.bad = i
              THEN RaisedInPull(seen, ExceptionVal)
              ELSE WhatsAppLoop(resp, i + 1, seen \cup {resp.ids[i]},
                                Append(msgs, Message(resp.ids[i], "whatsapp")))

\* WhatsAppChannelHandler.pull_messages, from the return of `await client.get`
WhatsAppPullMessages(seen, resp) ==
    CASE resp.kind = "ok" -> WhatsAppLoop(resp, 1, seen, <<>>)
      [] resp.kind = "cancel" -> RaisedInPull(seen, CancelledError)
      [] resp.kind = "exc" -> RaisedInPull(seen, ExceptionVal)
      [] OTHER -> Pulled(seen, Return(<<>>))

\* TeamsChannelHandler.pull_messages
TeamsPullMessages(seen) == Pulled(seen, Return(<<>>))

\* ------------------------------------------------- the webhooks
\* (mutant) a handle_webhook that returns every message of its payload, seen or not
WhatsAppWebhookAll(payload, i, seen, msgs) ==
    Pulled(seen \cup {payload.ids[k] : k \in 1..Len(payload.ids)},
           Return([k \in 1..Len(payload.ids) |-> Message(payload.ids[k], "whatsapp")]))

\* the loop over the messages of the payload of
\* WhatsAppChannelHandler.handle_webhook, from position i on; an Exception (at
\* position payload.bad) gives [], the ids added before it stay
RECURSIVE WhatsAppWebhookLoop(_, _, _, _)
WhatsAppWebhookLoop(payload, i, seen, msgs) ==
    IF i > Len(payload.ids)
    THEN Pulled(seen, Return(msgs))
    ELSE IF payload.bad = i
         THEN Pulled(seen, Return(<<>>))
         ELSE IF AlreadyProcessed(seen, payload.ids[i])
              THEN WhatsAppWebhookLoop(payload, i + 1, seen, msgs)
              ELSE WhatsAppWebhookLoop(payload, i + 1, seen \cup {payload.ids[i]},
                                       Append(msgs, Message(payload.ids[i], "whatsapp")))

\* the payloads of the WhatsApp webhook: the ids of their messages, and the
\* position of an entry that cannot be read (0: none)
WhatsAppPayloads ==
    {Response("ok", ids, bad, "raise") : ids \in IdLists, bad \in 0..MaxResp}

\* the activity of the Teams webhook carries no id
NoId == 0

\* a handle_webhook that starts a new set with every activity
TeamsHandleWebhookFresh(seen, id) ==
    Pulled({id} \ {NoId}, Return(Message(id, "teams")))

\* TeamsChannelHandler.handle_webhook for an activity with this id
TeamsHandleWebhook(seen, id) ==
    IF id # NoId /\ ~AlreadyProcessed(seen, id)
    THEN Pulled(seen \cup {id}, Return(Message(id, "teams")))
    ELSE Pulled(seen, Return(NoneVal))

\* the framework delivers a WhatsApp webhook payload to handle_webhook
WhatsAppWebhook(payload) ==
    /\ ValidResponse(payload)
    /\ processed_messages' =
           [processed_messages EXCEPT !["whatsapp"] =
               WhatsAppWebhookLoop(payload, 1, processed_messages["whatsapp"], <<>>).seen]
    /\ UNCHANGED <<orchVars, is_running, lpc, last_call, messages, pull_results, pulled,
                   repeated, iter_fault>>

\* the framework delivers a Teams activity to handle_webhook
TeamsWebhook(id) ==
    /\ processed_messages' =
           [processed_messages EXCEPT !["teams"] =
               TeamsHandleWebhook(processed_messages["teams"], id).seen]
    /\ UNCHANGED <<orchVars, is_running, lpc, last_call, messages, pull_results, pulled,
                   repeated, iter_fault>>

\* the provider of Teams is never asked
NoResponse == Response("none", <<>>, 0, "skip")

AdapterResponses(ch) ==
    CASE ch = "email" -> EmailResponses
      [] ch = "whatsapp" -> WhatsAppResponses
      [] OTHER -> {NoResponse}

\* self.channels[ch].pull_messages()
PullMessagesOf(ch, seen, resp) ==
    CASE ch = "email" -> EmailPullMessages(seen, resp)
      [] ch = "whatsapp" -> WhatsAppPullMessages(seen, resp)
      [] OTHER -> TeamsPullMessages(seen)

\* one adapter's pull_messages is awaited on its own
PullMessages(ch, resp) ==
    /\ last_call = NoCall
    /\ ValidResponse(resp)
    /\ LET pm == PullMessagesOf(ch, processed_messages[ch], resp)
       IN  /\ processed_messages' = [processed_messages EXCEPT ![ch] = pm.seen]
           /\ last_call' = [op |-> "pull_messages", channel |-> ch,
                            seen |-> processed_messages[ch], response |-> resp,
                            result |-> pm.result]
    /\ UNCHANGED <<orchVars, is_running, lpc, messages, pull_results, pulled, repeated,
                   iter_fault>>

\* ------------------------------------------------- the sends
\* What the provider does with a send: "ok" (it accepts the message), "status"
\* (it answers with a non-success status), "exc" (the library raises an
\* Exception), "cancel" (asyncio.CancelledError is raised at the awaited
\* request). Only the WhatsApp adapter reads a status and awaits its request.
ProviderOutcomes(ch) ==
    IF ch = "whatsapp" THEN {"ok", "status", "exc", "cancel"} ELSE {"ok", "exc"}

\* (mutant) adapters without the except clause of send_message
SendCaughtNothing(e) == FALSE

\* `except Exception as e` of an adapter's send_message: what it catches
SendCaught(e) == IsException(e)

\* e is raised inside send_message: `return False` in the except clause, or the
\* exception leaves the coroutine
RaisedInSend(e) == IF SendCaught(e) THEN Return(FALSE) ELSE Raise(e)

\* EmailChannelHandler.send_message and TeamsChannelHandler.send_message (they
\* await nothing)
SyncSendMessage(p) == IF p = "ok" THEN Return(TRUE) ELSE RaisedInSend(ExceptionVal)

\* WhatsAppChannelHandler.send_message
WhatsAppSendMessage(p) ==
    CASE p = "ok" -> Return(TRUE)
      [] p = "status" -> Return(FALSE)
      [] p = "cancel" -> RaisedInSend(CancelledError)
      [] OTHER -> RaisedInSend(ExceptionVal)

SendMessageOf(ch, p) ==
    IF ch = "whatsapp" THEN WhatsAppSendMessage(p) ELSE SyncSendMessage(p)

\* the channel values a message can carry: a string, or nothing
Str(s) == [kind |-> "str", value |-> s]
ChannelKeys == {Str(k) : k \in Channels \cup {UnknownChannel, "Email"}} \cup {NoneVal}

\* (mutant) a dispatch that compares the key as it is
LowerNot(k) == k

\* str.lower() on the keys above
Lower(k) == IF k = "Email" THEN "email" ELSE k

\* ------------------------------------------------- the acknowledge
\* `except Exception as e` of an adapter's mark_as_read
RaisedInMark(e) == IF IsException(e) THEN Return(FALSE) ELSE Raise(e)

\* what the provider can do with an acknowledge; the Teams adapter asks nobody
AckOutcomes(ch) == IF ch = "teams" THEN {"none"} ELSE ProviderOutcomes(ch)

\* mark_as_read of the adapter of channel ch
MarkAsReadOf(ch, p) ==
    CASE ch = "teams" -> Return(TRUE)
      [] p = "ok" -> Return(TRUE)
      [] p = "status" -> Return(FALSE)
      [] p = "cancel" -> RaisedInMark(CancelledError)
      [] OTHER -> RaisedInMark(ExceptionVal)

\* (mutant) an acknowledge whose failure ends the polling
MarkAsReadStopping(ch, p) ==
    /\ last_call = NoCall
    /\ last_call' = [op |-> "mark_as_read", channel |-> Str(ch), provider |-> p,
                     result |-> MarkAsReadOf(ch, p)]
    /\ is_running' = (is_running /\ MarkAsReadOf(ch, p) = Return(TRUE))
    /\ UNCHANGED <<orchVars, lpc, processed_messages, messages, pull_results,
                   pulled, repeated, iter_fault>>

\* an adapter's mark_as_read is awaited on its own: no code of the repository
\* calls it
MarkAsRead(ch, p) ==
    /\ last_call = NoCall
    /\ last_call' = [op |-> "mark_as_read", channel |-> Str(ch), provider |-> p,
                     result |-> MarkAsReadOf(ch, p)]
    /\ UNCHANGED <<orchVars, is_running, lpc, processed_messages, messages, pull_results,
                   pulled, repeated, iter_fault>>

\* `except Exception as e` of send_response: what it catches
ResponseCaught(e) == IsException(e)

\* MessagePullService.send_response for the channel value `key`: None has no
\* lower(), a key without adapter gives False, the adapter's result is returned
SendResponseOf(key, p) ==
    LET raised(e) == IF ResponseCaught(e) THEN Return(FALSE) ELSE Raise(e)
    IN  IF key = NoneVal THEN raised(ExceptionVal)
        ELSE IF Lower(key.value) \in Channels
             THEN LET sm == SendMessageOf(Lower(key.value), p)
                  IN  IF sm.kind = "raise" THEN raised(sm.value) ELSE sm
             ELSE Return(FALSE)

\* the adapters whose send_message send_response calls for the channel value
\* `key`: the if/elif chain takes one branch
Dispatched(key) ==
    IF key = NoneVal THEN {}
    ELSE {c \in Channels : Lower(key.value) = c}

\* what the provider can do for the channel value `key`; without adapter no
\* provider is asked
OutcomesFor(key) ==
    IF key # NoneVal /\ Lower(key.value) \in Channels
    THEN ProviderOutcomes(Lower(key.value)) ELSE {"none"}

\* one adapter's send_message is awaited on its own
SendMessage(ch, p) ==
    /\ last_call = NoCall
    /\ last_call' = [op |-> "send_message", channel |-> Str(ch), provider |-> p,
                     result |-> SendMessageOf(ch, p)]
    /\ UNCHANGED <<orchVars, is_running, lpc, processed_messages, messages, pull_results,
                   pulled, repeated, iter_fault>>

\* send_response is awaited on its own
SendResponseTo(key, p) ==
    /\ last_call = NoCall
    /\ last_call' = [op |-> "send_response", channel |-> key, provider |-> p,
                     adapters |-> Dispatched(key), result |-> SendResponseOf(key, p)]
    /\ UNCHANGED <<orchVars, is_running, lpc, processed_messages, messages, pull_results,
                   pulled, repeated, iter_fault>>

\* ------------------------------------------------- IDITAPIClient
\* the method values execute_action is called with: a string, or nothing
MethodValues == {Str(k) : k \in {"GET", "POST", "PUT", "DELETE", "post", "PATCH"}} \cup {NoneVal}

\* str.upper() on the methods above
Upper(k) == IF k = "post" THEN "POST" ELSE k

\* the branches of the if/elif chain of execute_action
SupportedMethods == {"GET", "POST", "PUT", "DELETE"}

\* What the backend does with the request: "timeout" (httpx.TimeoutException),
\* "request_error" (another httpx.RequestError), "exc" (any other Exception),
\* "cancel" (CancelledError at the awaited request), or "response": a status
\* code and a body that is empty, a JSON object, a JSON value that is no object
\* ("array"), or no JSON at all ("text")
Backend(kind, status_code, body) == [kind |-> kind, status_code |-> status_code, body |-> body]
StatusCodes == {199, 200, 299, 300, 404}
BackendOutcomes ==
    {Backend(k, 0, "none") : k \in {"timeout", "request_error", "exc", "cancel"}}
    \cup {Backend("response", c, b) : c \in StatusCodes, b \in {"empty", "object", "array", "text"}}

\* IDITAPIClient._create_error_response
CreateErrorResponse(status_code) == [success |-> FALSE, status_code |-> status_code]

\* IDITAPIClient._parse_response: a body that is no JSON is kept as raw text;
\* response_data.get is evaluated for a success status only, and raises
\* AttributeError when the JSON value is no object
ParseResponse(response) ==
    LET success == 200 <= response.status_code /\ response.status_code < 300
    IN  IF success /\ response.body = "array"
        THEN Raise(ExceptionVal)
        ELSE Return([success |-> success, status_code |-> response.status_code])

\* the three except clauses of execute_action
ActionCaught(kind) ==
    CASE kind = "timeout" -> Return(CreateErrorResponse(408))
      [] kind \in {"request_error", "exc"} -> Return(CreateErrorResponse(500))
      [] OTHER -> Raise(CancelledError)

\* IDITAPIClient.execute_action: None has no upper(), a method without branch
\* raises ValueError, the request is awaited, the response parsed
ExecuteAction(method, b) ==
    IF method = NoneVal \/ Upper(method.value) \notin SupportedMethods
    THEN ActionCaught("exc")
    ELSE IF b.kind # "response" THEN ActionCaught(b.kind)
         ELSE LET parsed == ParseResponse(b)
              IN  IF parsed.kind = "raise" THEN ActionCaught("exc") ELSE parsed

\* execute_action is awaited on its own
ExecuteActionCall(method, b) ==
    /\ last_call = NoCall
    /\ last_call' = [op |-> "execute_action", method |-> method, backend |-> b,
                     result |-> ExecuteAction(method, b)]
    /\ UNCHANGED <<orchVars, is_running, lpc, processed_messages, messages, pull_results,
                   pulled, repeated, iter_fault>>

\* ------------------------------------------------- ClassificationAgent
\* the keys of the JSON object that the classification task asks the model for
ClassificationFields == {"action_id", "category", "ivo_attributes", "confidence"}

\* What task.execute() does: it raises an Exception, or it returns None, a text,
\* or a dictionary that has some of the keys (has[k]: key k is in it).
ModelDict(has) == [kind |-> "dict", has |-> has]
ModelOutcomes ==
    {Raise(ExceptionVal), Return(NoneVal), Return([kind |-> "text"])}
    \cup {Return(ModelDict(has)) : has \in [ClassificationFields -> BOOLEAN]}

\* the sender of a message that carries none
NoSender == 0

\* message.get('sender', 'unknown')
SenderOf(m) == IF m.sender = NoSender THEN "unknown" ELSE m.sender

\* ClassificationAgent._get_fallback_classification
GetFallbackClassification(m) ==
    [kind |-> "dict", has |-> [k \in ClassificationFields |-> TRUE],
     action_id |-> "general_inquiry",
     category |-> "inquiry", customer_id |-> SenderOf(m), confidence |-> "0.5"]

\* result.get('action_id') raises AttributeError for what is no dictionary
HasGet(v) == v.kind = "dict"

\* ClassificationAgent.classify_message, from the end of task.execute(): every
\* Exception, that of result.get included, leads to the fallback; a dictionary is
\* returned as it is
AgentClassifyMessage(m, o) ==
    IF o.kind = "return" /\ HasGet(o.value)
    THEN Return(o.value)
    ELSE Return(GetFallbackClassification(m))

\* the messages classify_message is called with: with and without a sender
ClassifiedMessages == CallerMessages \cup {[Message(1, "email") EXCEPT !.sender = NoSender]}

\* classify_message is called on its own
ClassifyCall(m, o) ==
    /\ last_call = NoCall
    /\ last_call' = [op |-> "classify_message", message |-> m, model |-> o,
                     result |-> AgentClassifyMessage(m, o)]
    /\ UNCHANGED <<orchVars, is_running, lpc, processed_messages, messages, pull_results,
                   pulled, repeated, iter_fault>>

\* ------------------------------------------------- TaskCreationAgent
\* the top-level keys of the JSON object that the task creation asks the model for
TaskFields == {"task_id", "ivo_json", "execution_params"}

\* what task.execute() does in create_task
TaskModelOutcomes ==
    {Raise(ExceptionVal), Return(NoneVal), Return([kind |-> "text"])}
    \cup {Return(ModelDict(has)) : has \in [TaskFields -> BOOLEAN]}

\* classification.get('action_id', 'general_inquiry')
ActionIdOf(c) ==
    IF "action_id" \in DOMAIN c THEN c.action_id
    ELSE IF c.has["action_id"] THEN "from_model" ELSE "general_inquiry"

\* TaskCreationAgent._get_fallback_task
GetFallbackTask(c, m) ==
    [kind |-> "dict", has |-> [k \in TaskFields |-> TRUE],
     action_type |-> ActionIdOf(c), request_type |-> "manual_review",
     customer_id |-> SenderOf(m),
     api_endpoint |-> "/api/v1/tasks/manual", http_method |-> "POST"]

\* TaskCreationAgent.create_task, from the end of task.execute(): every
\* Exception, that of result.get included, leads to the fallback; a dictionary is
\* returned as it is
AgentCreateTask(c, m, o) ==
    IF o.kind = "return" /\ HasGet(o.value)
    THEN Return(o.value)
    ELSE Return(GetFallbackTask(c, m))

\* ------------------------------------------------- the stages with their agents
\* (mutant) a wrapper that does not run the agent but reports its model's failure
ClassifyViaBare(m, x, o) ==
    IF x = "refused" \/ o.kind = "raise" THEN Return(NoneVal) ELSE AgentClassifyMessage(m, o)

\* Orchestrator._classify_message with the agent behind it: run_in_executor runs
\* classify_message (x = "runs") or raises (x = "refused": the executor takes no
\* job), which the wrapper's except clause turns into None
ClassifyVia(m, x, o) ==
    IF x = "refused" THEN Return(NoneVal) ELSE AgentClassifyMessage(m, o)

\* Orchestrator._create_task with the agent behind it
CreateTaskVia(c, m, x, o) ==
    IF x = "refused" THEN Return(NoneVal) ELSE AgentCreateTask(c, m, o)

\* process_message from its first stage to the call of _execute_task: the branch
\* it takes, and the classification and the task it has then
ClassifyAndCreateOf(m, xc, co, xt, to) ==
    LET c == ClassifyVia(m, xc, co).value
    IN  IF Falsy(c)
        THEN [branch |-> "Classification failed", classification |-> c, task |-> NoneVal]
        ELSE LET t == CreateTaskVia(c, m, xt, to).value
             IN  IF Falsy(t)
                 THEN [branch |-> "Task creation failed", classification |-> c, task |-> t]
                 ELSE [branch |-> "execute", classification |-> c, task |-> t]

\* the messages of these runs: with and without a sender
StagedMessages == {Message(1, "email"), [Message(1, "email") EXCEPT !.sender = NoSender]}

\* a run goes through its first two stages
ClassifyAndCreate(m, xc, co, xt, to) ==
    /\ last_call = NoCall
    /\ last_call' = [op |-> "classify_and_create", message |-> m,
                     executor |-> <<xc, xt>>, model |-> <<co, to>>,
                     result |-> ClassifyAndCreateOf(m, xc, co, xt, to)]
    /\ UNCHANGED <<orchVars, is_running, lpc, processed_messages, messages, pull_results,
                   pulled, repeated, iter_fault>>

\* ------------------------------------------------- pull_all_messages
\* the loop over enumerate(results): an Exception is logged, every other result
\* is given to all_messages.extend, which raises TypeError for what is no list
RECURSIVE Combine(_, _, _)
Combine(results, idx, all_messages) ==
    IF idx > Len(results) THEN Return(all_messages)
    ELSE IF results[idx].kind = "raise"
         THEN IF IsException(results[idx].value)
              THEN Combine(results, idx + 1, all_messages)
              ELSE Raise(ExceptionVal)
         ELSE Combine(results, idx + 1, all_messages \o results[idx].value)

\* what pull_all_messages returns for gather's list of results
PullAllMessages(results) ==
    LET combined == Combine(results, 1, <<>>)
    IN  IF combined.kind = "raise" THEN <<>> ELSE combined.value

PairOf(m) == <<m.channel, m.message_id>>
PairsOf(result) ==
    IF result.kind = "return" THEN {PairOf(result.value[i]) : i \in 1..Len(result.value)}
    ELSE {}

\* the provider's list names an id that an earlier pull has returned, or names
\* an id twice
Repeats(ch, resp) ==
    \/ \E i \in 1..Len(resp.ids) : <<ch, resp.ids[i]>> \in pulled
    \/ \E i, j \in 1..Len(resp.ids) : i # j /\ resp.ids[i] = resp.ids[j]

NotStarted == [kind |-> "pending"]

\* (mutant) a loop that hands every pulled list to the callback
AfterPullAlways(msgs) == "callback"

\* `if messages: await callback(messages)`, then the sleep of the try block
AfterPull(msgs) == IF msgs # <<>> THEN "callback" ELSE "sleeping"

\* pull_all_messages is called and gather starts the three pulls: the e-mail
\* pull and the Teams pull run to their end, the WhatsApp pull up to its request
GatherStarts(e) ==
    /\ lpc = "pulling"
    /\ ValidResponse(e)
    /\ LET em == EmailPullMessages(processed_messages["email"], e)
           tm == TeamsPullMessages(processed_messages["teams"])
       IN  /\ processed_messages' = [processed_messages EXCEPT !["email"] = em.seen,
                                                               !["teams"] = tm.seen]
           /\ pull_results' = <<em.result, NotStarted, tm.result>>
    /\ repeated' = Repeats("email", e)
    /\ lpc' = "gathering"
    /\ UNCHANGED <<orchVars, is_running, last_call, messages, pulled, iter_fault>>

\* (mutant) adapters that keep their seen ids in one set: what the WhatsApp pull
\* adds is added for the e-mail adapter too
GatherCompletesShared(w) ==
    /\ lpc = "gathering"
    /\ ValidResponse(w)
    /\ LET wm == WhatsAppPullMessages(processed_messages["whatsapp"], w)
           results == [pull_results EXCEPT ![2] = wm.result]
       IN  /\ processed_messages' =
                  [processed_messages EXCEPT !["whatsapp"] = wm.seen,
                                             !["email"] = @ \cup wm.seen]
           /\ pull_results' = results
           /\ messages' = PullAllMessages(results)
           /\ pulled' = pulled \cup UNION {PairsOf(results[idx]) : idx \in 1..Len(results)}
    /\ repeated' = (repeated \/ Repeats("whatsapp", w))
    /\ lpc' = AfterPull(messages')
    /\ UNCHANGED <<orchVars, is_running, last_call, iter_fault>>

\* the WhatsApp request is answered, gather is complete, pull_all_messages returns
\* to the loop, which calls the callback when the list is not empty
GatherCompletes(w) ==
    /\ lpc = "gathering"
    /\ ValidResponse(w)
    /\ LET wm == WhatsAppPullMessages(processed_messages["whatsapp"], w)
           results == [pull_results EXCEPT ![2] = wm.result]
       IN  /\ processed_messages' = [processed_messages EXCEPT !["whatsapp"] = wm.seen]
           /\ pull_results' = results
           /\ messages' = PullAllMessages(results)
           /\ pulled' = pulled \cup UNION {PairsOf(results[idx]) : idx \in 1..Len(results)}
    /\ repeated' = (repeated \/ Repeats("whatsapp", w))
    /\ lpc' = AfterPull(messages')
    /\ UNCHANGED <<orchVars, is_running, last_call, iter_fault>>

\* (mutant) a loop without its except clause
LoopCaughtNothing(e) == FALSE

\* `except Exception as e` of start_polling: what it catches
LoopCaught(e) == IsException(e)

\* the callback is over: it returns, or it raises what it raises into the loop
CallbackEnds(o) ==
    /\ lpc = "callback"
    /\ call.origin = "free"
    /\ messages' = <<>>
    /\ pull_results' = <<>>
    /\ repeated' = FALSE
    /\ CASE o.kind = "return" -> lpc' = "sleeping" /\ UNCHANGED iter_fault
         [] o.kind = "raise" /\ LoopCaught(o.value) ->
                lpc' = "fault_sleep" /\ iter_fault' = o.value.kind
         [] OTHER -> lpc' = "raised" /\ iter_fault' = o.value.kind
    /\ UNCHANGED <<orchVars, is_running, last_call, processed_messages, pulled>>

\* asyncio.sleep(self.poll_interval) of the except block is over
FaultSleep ==
    /\ lpc = "fault_sleep"
    /\ lpc' = "top"
    /\ iter_fault' = "none"
    /\ UNCHANGED <<orchVars, is_running, last_call, processed_messages, messages, pull_results,
                   pulled, repeated>>

\* ------------------------------------------------- the compositions
Init ==
    /\ max_concurrent_tasks \in 1..MaxN
    /\ semaphore = max_concurrent_tasks
    /\ runs = [r \in RunSlots |-> FreeRun]
    /\ call = FreeCall
    /\ is_running = FALSE
    /\ lpc = "idle"
    /\ processed_messages = [c \in Channels |-> {}]
    /\ messages = <<>>
    /\ pull_results = <<>>
    /\ pulled = {}
    /\ repeated = FALSE
    /\ iter_fault = "none"
    /\ last_call = NoCall

ChannelLists(S, n) == UNION {[1..k -> S] : k \in 0..n}

\* the channel keys of a list that pull_all_messages returns: the e-mail
\* messages come first, the WhatsApp messages behind them
PulledLists(n) ==
    {chs \in ChannelLists(PolledChannels, n) :
        \A i, j \in 1..Len(chs) : (i < j /\ chs[j] = "email") => chs[i] = "email"}

RunStep(r) ==
    \/ Acquire(r)
    \/ \E o \in {"ok", "falsy", "exc", "cancel"} : ClassifyStep(r, o)
    \/ \E o \in {"ok", "falsy", "exc", "cancel"} : CreateStep(r, o)
    \/ \E o \in {"success", "failed", "nondict", "exc", "cancel"} : ExecuteStep(r, o)
    \/ \E a \in {"true", "false", "exc", "cancel", "none"} : RespondStep(r, a)

\* the Orchestrator called by its clients: process_message and process_messages
Next ==
    \/ \E r \in RunSlots : RunStep(r)
    \/ \E ch \in DirectChannels : ProcessMessage(ch)
    \/ \E r \in RunSlots : ProcessMessageReturn(r)
    \/ \E chs \in ChannelLists(DirectChannels, Cardinality(FreeSlots)) : ProcessMessages(chs)
    \/ ProcessMessagesReturn
    \/ ResultsTaken

Spec == Init /\ [][Next]_vars

\* the Orchestrator and its gate, with the ways of leaving the gate that differ:
\* Classify raises an Exception, CreateTask returns nothing, Execute is
\* cancelled, the send fails
GateStep(r) ==
    \/ Acquire(r)
    \/ \E o \in {"ok", "exc"} : ClassifyStep(r, o)
    \/ \E o \in {"ok", "falsy"} : CreateStep(r, o)
    \/ \E o \in {"success", "cancel"} : ExecuteStep(r, o)
    \/ \E a \in {"true", "false"} : RespondStep(r, a)

GateNext ==
    \/ \E r \in RunSlots : GateStep(r)
    \/ ProcessMessage("email")
    \/ \E r \in RunSlots : ProcessMessageReturn(r)
    \/ \E chs \in ChannelLists({"email"}, Cardinality(FreeSlots)) : ProcessMessages(chs)
    \/ ProcessMessagesReturn
    \/ ResultsTaken

GateSpec == Init /\ [][GateNext]_vars

\* every awaited stage call and every send of a run terminates, gather returns
\* when its tasks are over, and the gate wakes its waiters in the order of their
\* arrival, so a run that finds the gate free again and again gets a slot
GateFairness ==
    /\ \A r \in RunSlots : SF_vars(Acquire(r))
    /\ \A r \in RunSlots : WF_vars(GateStep(r))
    /\ WF_vars(ProcessMessagesReturn)

FairGateSpec == GateSpec /\ GateFairness

\* the Orchestrator in polling mode: start, stop and the loop calling process_messages
LoopNext ==
    \/ \E r \in RunSlots : RunStep(r)
    \/ Start
    \/ Stop
    \/ LoopTest
    \/ \E chs \in PulledLists(Cardinality(FreeSlots)) : PullReturnsBatch(chs)
    \/ CallbackReturn
    \/ Sleep

LoopSpec == Init /\ [][LoopNext]_vars

\* every awaited call of the loop and of the runs terminates: the pull, the stage
\* calls and the send of each run, process_messages, the sleep
LoopFairness ==
    /\ WF_vars(\E r \in RunSlots : RunStep(r))
    /\ WF_vars(LoopTest)
    /\ WF_vars(\E chs \in PulledLists(Cardinality(FreeSlots)) :
                   PullReturnsBatch(chs))
    /\ WF_vars(CallbackReturn)
    /\ WF_vars(Sleep)

FairLoopSpec == LoopSpec /\ LoopFairness

\* the MessagePullService polling with a callback that is any async function
CallbackOutcomes == {Return(NoneVal), Raise(ExceptionVal), Raise(CancelledError)}

PollNext ==
    \/ Start
    \/ Stop
    \/ LoopTest
    \/ \E e \in EmailResponses : GatherStarts(e)
    \/ \E w \in WhatsAppResponses : GatherCompletes(w)
    \/ \E o \in CallbackOutcomes : CallbackEnds(o)
    \/ Sleep
    \/ FaultSleep

PollInit == Init /\ max_concurrent_tasks = 1

PollSpec == PollInit /\ [][PollNext]_vars

\* every awaited call of the loop terminates: the pulls, the callback, the sleeps
PollFairness ==
    /\ WF_vars(LoopTest)
    /\ WF_vars(\E e \in EmailResponses : GatherStarts(e))
    /\ WF_vars(\E w \in WhatsAppResponses : GatherCompletes(w))
    /\ WF_vars(\E o \in CallbackOutcomes : CallbackEnds(o))
    /\ WF_vars(Sleep)
    /\ WF_vars(FaultSleep)

FairPollSpec == PollSpec /\ PollFairness

\* the adapters with both their intakes, the polling and the webhooks; the
\* providers answer a pull, and call a webhook, with at most one id
ShortResponses(S) == {resp \in S : Len(resp.ids) <= 1}

SeenNext ==
    \/ Start
    \/ Stop
    \/ LoopTest
    \/ \E e \in ShortResponses(EmailResponses) : GatherStarts(e)
    \/ \E w \in ShortResponses(WhatsAppResponses) : GatherCompletes(w)
    \/ \E o \in {Return(NoneVal), Raise(ExceptionVal)} : CallbackEnds(o)
    \/ Sleep
    \/ FaultSleep
    \/ \E payload \in ShortResponses(WhatsAppPayloads) : WhatsAppWebhook(payload)
    \/ \E id \in 0..MaxId : TeamsWebhook(id)

SeenSpec == PollInit /\ [][SeenNext]_vars

\* the Orchestrator called by clients that choose the messages they pass in: the
\* same message may be passed again, and twice in one list
CallerLists(n) == UNION {[1..k -> CallerMessages] : k \in 1..n}

IntakeNext ==
    \/ \E r \in RunSlots : RunStep(r)
    \/ \E m \in CallerMessages : ProcessMessageOf(m)
    \/ \E r \in RunSlots : ProcessMessageReturn(r)
    \/ \E msgs \in CallerLists(Cardinality(FreeSlots)) : ProcessMessagesOf(msgs)
    \/ ProcessMessagesReturn
    \/ ResultsTaken

IntakeSpec == Init /\ [][IntakeNext]_vars

\* the caller of the operation has received its result, or its exception
CallReturn ==
    /\ last_call # NoCall
    /\ last_call' = NoCall
    /\ UNCHANGED <<orchVars, is_running, lpc, processed_messages, messages, pull_results,
                   pulled, repeated, iter_fault>>

\* (mutant) a loop that starts process_messages without awaiting it
CallbackNotAwaited ==
    /\ lpc = "callback"
    /\ call.origin = "free"
    /\ Len(messages) <= Cardinality(FreeSlots)
    /\ SpawnCall(messages, "poll")
    /\ lpc' = "sleeping"
    /\ UNCHANGED <<max_concurrent_tasks, semaphore, is_running, last_call, processed_messages,
                   messages, pull_results, pulled, repeated, iter_fault>>

\* `await callback(messages)` with the callback of Orchestrator.start: the loop
\* calls process_messages with the list that pull_all_messages returned
CallbackStarts ==
    /\ lpc = "callback"
    /\ call.origin = "free"
    /\ Len(messages) <= Cardinality(FreeSlots)
    /\ SpawnCall(messages, "poll")
    /\ UNCHANGED <<max_concurrent_tasks, semaphore, is_running, lpc, last_call,
                   processed_messages, messages, pull_results, pulled, repeated, iter_fault>>

\* the Orchestrator in polling mode with the adapters' pulls: each iteration
\* gathers the three pulls and hands their list to process_messages
IterNext ==
    \/ Start
    \/ Stop
    \/ LoopTest
    \/ \E e \in ShortResponses(EmailResponses) : GatherStarts(e)
    \/ \E w \in ShortResponses(WhatsAppResponses) : GatherCompletes(w)
    \/ CallbackStarts
    \/ \E r \in RunSlots : GateStep(r)
    \/ CallbackReturn
    \/ Sleep

IterSpec == Init /\ [][IterNext]_vars

\* the same loop with a callback that can also fail before it starts its runs:
\* the loop's except clause sleeps and goes on
FaultyIterNext ==
    \/ IterNext
    \/ CallbackEnds(Raise(ExceptionVal))
    \/ FaultSleep

FaultyIterSpec == Init /\ [][FaultyIterNext]_vars

\* the channels that take webhooks
WebhookChannels == {"teams", "whatsapp"}

\* the application's route awaits handle_webhook of the WhatsApp adapter
WhatsAppWebhookCall(payload) ==
    /\ last_call = NoCall
    /\ ValidResponse(payload)
    /\ LET hw == WhatsAppWebhookLoop(payload, 1, processed_messages["whatsapp"], <<>>)
       IN  /\ processed_messages' = [processed_messages EXCEPT !["whatsapp"] = hw.seen]
           /\ last_call' = [op |-> "handle_webhook", channel |-> "whatsapp",
                            seen |-> processed_messages["whatsapp"], ids |-> payload.ids,
                            result |-> hw.result]
    /\ UNCHANGED <<orchVars, is_running, lpc, messages, pull_results, pulled, repeated,
                   iter_fault>>

\* the application's route awaits handle_webhook of the Teams adapter
TeamsWebhookCall(id) ==
    /\ last_call = NoCall
    /\ LET hw == TeamsHandleWebhook(processed_messages["teams"], id)
       IN  /\ processed_messages' = [processed_messages EXCEPT !["teams"] = hw.seen]
           /\ last_call' = [op |-> "handle_webhook", channel |-> "teams",
                            seen |-> processed_messages["teams"], ids |-> <<id>>,
                            result |-> hw.result]
    /\ UNCHANGED <<orchVars, is_running, lpc, messages, pull_results, pulled, repeated,
                   iter_fault>>

\* pull_messages of one of these adapters is awaited, and what it returns is kept
PullMessagesCall(ch, resp) ==
    /\ last_call = NoCall
    /\ ValidResponse(resp)
    /\ LET pm == PullMessagesOf(ch, processed_messages[ch], resp)
       IN  /\ processed_messages' = [processed_messages EXCEPT ![ch] = pm.seen]
           /\ last_call' = [op |-> "pull_messages", channel |-> ch,
                            seen |-> processed_messages[ch], ids |-> resp.ids,
                            result |-> pm.result]
           /\ pulled' = pulled \cup PairsOf(pm.result)
    /\ UNCHANGED <<orchVars, is_running, lpc, messages, pull_results, repeated, iter_fault>>

\* the adapters that take webhooks, their webhooks and their pulls called in any
\* order
WebhookNext ==
    \/ \E payload \in WhatsAppPayloads : WhatsAppWebhookCall(payload)
    \/ \E id \in 0..MaxId : TeamsWebhookCall(id)
    \/ \E ch \in WebhookChannels : \E resp \in AdapterResponses(ch) : PullMessagesCall(ch, resp)
    \/ CallReturn

WebhookSpec == Init /\ [][WebhookNext]_vars

\* the Orchestrator in polling mode, its stages doing what they do at the gate,
\* and the adapters' acknowledge called by whoever holds an adapter
AckNext ==
    \/ \E r \in RunSlots : GateStep(r)
    \/ Start
    \/ Stop
    \/ LoopTest
    \/ \E chs \in PulledLists(Cardinality(FreeSlots)) : PullReturnsBatch(chs)
    \/ CallbackReturn
    \/ Sleep
    \/ \E ch \in Channels : \E p \in AckOutcomes(ch) : MarkAsRead(ch, p)
    \/ CallReturn

AckSpec == Init /\ [][AckNext]_vars

\* the operations of the adapters and of the services, each called on its own
CallNext ==
    \/ \E ch \in Channels : \E resp \in AdapterResponses(ch) : PullMessages(ch, resp)
    \/ \E ch \in Channels : \E p \in ProviderOutcomes(ch) : SendMessage(ch, p)
    \/ \E key \in ChannelKeys : \E p \in OutcomesFor(key) : SendResponseTo(key, p)
    \/ \E m \in ClassifiedMessages : \E o \in ModelOutcomes : ClassifyCall(m, o)
    \/ \E method \in MethodValues : \E b \in BackendOutcomes : ExecuteActionCall(method, b)
    \/ \E m \in StagedMessages : \E xc, xt \in {"runs", "refused"} :
          \E co \in ModelOutcomes : \E to \in TaskModelOutcomes :
              ClassifyAndCreate(m, xc, co, xt, to)
    \/ CallReturn

CallSpec == Init /\ [][CallNext]_vars

\* ================================================= the claims, Orchestrator
Done(r) == runs[r].pc = "done"

\* C1: the pipeline runs that are inside a stage at the same time never outnumber
\* the configured maximum; with a maximum of 1 no two runs are executing at once
C1_GateBound ==
    /\ Cardinality({r \in RunSlots : InStage(r)}) <= max_concurrent_tasks
    /\ max_concurrent_tasks = 1 =>
          Cardinality({r \in RunSlots : runs[r].pc = "executing"}) <= 1

\* a run of a batch executes while a directly awaited run is kept out by a gate of 1
C1_Witness ==
    /\ max_concurrent_tasks = 1
    /\ \E r1, r2 \in RunSlots :
          /\ runs[r1].pc = "executing" /\ runs[r1].origin = "gather"
          /\ runs[r2].pc = "waiting" /\ runs[r2].origin = "direct"

\* C2 (as claimed): a run that ends in an error outcome has attempted to send a
\* response to the sender on the message's channel, and response_sent is that
\* attempt's result
C2_RespondOnFailure ==
    \A r \in RunSlots :
        (Done(r) /\ runs[r].outcome.status \in {"error", "failed"}) =>
            /\ Len(runs[r].sends) = 1
            /\ runs[r].sends[1].channel = runs[r].msg.channel
            /\ runs[r].sends[1].recipient = runs[r].msg.sender
            /\ runs[r].outcome.response_sent = (runs[r].sends[1].result = "true")

\* C4: the slots that are free and the runs that hold one add up to the configured
\* maximum, so that all slots are free whenever no run is inside the gate
C4_SlotsReleased ==
    semaphore + Cardinality({r \in RunSlots : InStage(r)}) = max_concurrent_tasks

\* every slot is free after one run left by an exception that escaped and another
\* by an early error return
C4_Witness ==
    /\ semaphore = max_concurrent_tasks
    /\ \E r1, r2 \in RunSlots :
          /\ runs[r1].pc = "raised"
          /\ Done(r2) /\ runs[r2].outcome.error = "Task creation failed"

WellFormed(r) ==
    /\ runs[r].outcome.kind = "outcome"
    /\ runs[r].outcome.status \in {"success", "failed", "error"}
    /\ runs[r].outcome.message_id = runs[r].msg.message_id
    /\ runs[r].outcome.channel = runs[r].msg.channel
    /\ runs[r].outcome.response_sent \in BOOLEAN

C6_IndexAligned ==
    call.returned =>
        /\ Len(call.results) = Len(call.messages)
        /\ \A i \in 1..Len(call.results) :
              /\ call.results[i].kind = "outcome"
              /\ call.results[i].message_id = call.messages[i].message_id
              /\ call.results[i].channel = call.messages[i].channel

\* ================================================= the claims, polling mode
InFlight(r) == runs[r].pc \in {"waiting"} \cup Stages

\* C9: a stop changes nothing but the flag; the loop leaves only from the test at
\* the top of an iteration; a batch that a pull returns is handed to
\* process_messages whatever the flag is; no run in flight is dropped, and no run
\* is in flight when the loop returns
C9_StopDrains ==
    [][/\ (is_running /\ ~is_running') =>
              /\ runs' = runs /\ call' = call /\ semaphore' = semaphore
              /\ lpc' = lpc /\ messages' = messages
       /\ (lpc' = "returned" /\ lpc # "returned") => (lpc = "top" /\ ~is_running)
       /\ (lpc = "pulling" /\ lpc' # "pulling") =>
              IF messages' # <<>>
              THEN lpc' = "callback" /\ call'.messages = messages'
                   /\ \A i \in 1..Len(messages') :
                         runs'[call'.tasks[i]].msg = messages'[i]
              ELSE lpc' = "sleeping"
       /\ \A r \in RunSlots : InFlight(r) => runs'[r].pc # "free"
       /\ lpc' = "returned" => \A r \in RunSlots : ~InFlight(r)'
      ]_vars

\* stop has been called while the batch of the iteration is being processed: one
\* of its runs is inside a stage, another has already reached its outcome
C9_Witness ==
    /\ ~is_running
    /\ lpc = "callback"
    /\ call.messages = messages
    /\ \E r1, r2 \in RunSlots : InStage(r1) /\ Done(r2)

\* C10: start has returned only when stop was requested; once the flag is false
\* the test at the top starts no pull; and a loop whose flag is false returns
C10_StartReturnsAfterStop ==
    /\ [](lpc = "returned" => ~is_running)
    /\ [][(lpc' = "pulling" /\ lpc # "pulling") => is_running]_vars
    /\ (~is_running /\ lpc \notin {"idle", "returned"}) ~> (lpc = "returned")

\* the loop was started, stop was called and start has returned
C10_Witness == lpc = "returned" /\ ~is_running

\* ================================================= the claims, MessagePullService
\* C3: the batch that a pull hands to the loop holds no pair <<channel, message_id>>
\* that an earlier pull has returned, and holds no pair twice
C3_NoRepeatedPair ==
    [][(lpc = "gathering" /\ lpc' # "gathering") =>
          \A i \in 1..Len(messages') :
              /\ PairOf(messages'[i]) \notin pulled
              /\ \A j \in 1..Len(messages') :
                    i # j => PairOf(messages'[i]) # PairOf(messages'[j])
      ]_vars

\* the provider has repeated an id and the callback is given a batch, after
\* both channels have had messages returned
C3_Witness ==
    /\ lpc = "callback"
    /\ repeated
    /\ messages # <<>>
    /\ \E i, j \in 1..MaxId : {<<"email", i>>, <<"whatsapp", j>>} \subseteq pulled

Raisers == {idx \in 1..Len(pull_results) : pull_results[idx].kind = "raise"}
PullComplete == lpc \in {"callback", "sleeping"} /\ pull_results # <<>>

\* C7 (as claimed): when exactly one adapter's pull has raised, the aggregated
\* list holds every message that the other adapters returned
C7_OthersKept ==
    (PullComplete /\ Cardinality(Raisers) = 1) =>
        \A idx \in 1..Len(pull_results) :
            pull_results[idx].kind = "return" =>
                \A i \in 1..Len(pull_results[idx].value) :
                    \E k \in 1..Len(messages) : messages[k] = pull_results[idx].value[i]

StageOrder == <<"classify", "create", "execute", "respond">>
IsPrefix(s, t) == Len(s) <= Len(t) /\ \A i \in 1..Len(s) : s[i] = t[i]

\* C11: the wrappers a run has called are an initial part of Classify, CreateTask,
\* Execute, Respond (each at most once, in this order), and a wrapper is called
\* only when all the wrappers called before it are over
C11_StageOrder ==
    \A r \in RunSlots :
        /\ IsPrefix(runs[r].invoked, StageOrder)
        /\ Len(runs[r].invoked) - Len(runs[r].did) = (IF InStage(r) THEN 1 ELSE 0)

\* one run has gone through the four stages while another one awaits Execute
C11_Witness ==
    \E r1, r2 \in RunSlots :
        /\ Done(r1) /\ runs[r1].invoked = StageOrder
        /\ runs[r2].pc = "executing" /\ runs[r2].invoked = SubSeq(StageOrder, 1, 3)

NoOutput == {"falsy", "exc"}

\* C12: a run whose Classify gave nothing has called no other wrapper, a run whose
\* CreateTask gave nothing has not called Execute, and such a run ends with an
\* outcome of status 'error'
C12_ShortCircuit ==
    \A r \in RunSlots :
        /\ (Len(runs[r].did) >= 1 /\ runs[r].did[1] \in NoOutput) =>
              /\ runs[r].invoked = <<"classify">>
              /\ Done(r) /\ runs[r].outcome.status = "error"
        /\ (Len(runs[r].did) >= 2 /\ runs[r].did[2] \in NoOutput) =>
              /\ runs[r].invoked = <<"classify", "create">>
              /\ Done(r) /\ runs[r].outcome.status = "error"

\* one run has ended at a Classify that returned nothing, another at a CreateTask
\* that raised
C12_Witness ==
    \E r1, r2 \in RunSlots :
        /\ Done(r1) /\ runs[r1].did = <<"falsy">>
        /\ Done(r2) /\ runs[r2].did = <<"ok", "exc">>

\* the send of run r was attempted and failed: the adapter returned False or
\* raised an Exception
SendFailed(r) ==
    /\ Len(runs[r].did) = 4
    /\ runs[r].did[3] \in {"success", "failed", "exc"}
    /\ runs[r].did[4] \in {"false", "exc"}

\* C13: the outcome of a run whose send failed has the status that the execution
\* result gives, holds the classification, the task and the execution result of
\* the run and has response_sent false
C13_DeliveryFailureKeepsResult ==
    \A r \in RunSlots :
        (Done(r) /\ SendFailed(r)) =>
            /\ runs[r].outcome.status =
                  (IF runs[r].did[3] = "success" THEN "success" ELSE "failed")
            /\ runs[r].outcome.status # "error"
            /\ runs[r].outcome.classification = ClassificationOf(runs[r].msg)
            /\ runs[r].outcome.task = TaskOf(runs[r].msg)
            /\ runs[r].outcome.execution = ExecuteTask(runs[r].msg, runs[r].did[3]).value
            /\ runs[r].outcome.response_sent = FALSE

\* the adapter returned False after a successful execution in one run and raised
\* after a failed execution in another
C13_Witness ==
    \E r1, r2 \in RunSlots :
        /\ Done(r1) /\ runs[r1].did = <<"ok", "ok", "success", "false">>
        /\ Done(r2) /\ runs[r2].did = <<"ok", "ok", "failed", "exc">>

\* CreateTask or Execute has failed in run r
ConsumerFailed(r) ==
    \/ Len(runs[r].did) >= 2 /\ runs[r].did[2] \in NoOutput
    \/ Len(runs[r].did) >= 3 /\ runs[r].did[3] = "exc"

\* C14 (as claimed): a run in which CreateTask or Execute failed returns an error
\* outcome without execution result, and the apology has been sent to the sender
C14_ApologyOnStageFailure ==
    \A r \in RunSlots :
        (Done(r) /\ ConsumerFailed(r)) =>
            /\ runs[r].outcome.status \in {"error", "failed"}
            /\ runs[r].outcome.execution = NoneVal
            /\ Len(runs[r].sends) = 1
            /\ runs[r].sends[1].recipient = runs[r].msg.sender
            /\ runs[r].sends[1].content = ApologyText

\* Classify, CreateTask and Execute have succeeded in run r
StagesSucceeded(r) ==
    Len(runs[r].did) >= 3 /\ SubSeq(runs[r].did, 1, 3) = <<"ok", "ok", "success">>

\* C15: a run whose three stages succeeded and that returns has status 'success'
\* and has made exactly one send call, to the sender of its message and on the
\* channel of its message, whatever that channel is; response_sent is true when
\* the send has succeeded
C15_OneSendOnSuccess ==
    \A r \in RunSlots :
        (Done(r) /\ StagesSucceeded(r)) =>
            /\ runs[r].outcome.status = "success"
            /\ Len(runs[r].sends) = 1
            /\ runs[r].sends[1].recipient = runs[r].msg.sender
            /\ runs[r].sends[1].channel = runs[r].msg.channel
            /\ runs[r].did[4] = "true" => runs[r].outcome.response_sent

\* a run for a message of channel "alpha" and a run for an e-mail message, whose
\* send has succeeded, have both returned after three successful stages
C15_Witness ==
    \E r1, r2 \in RunSlots :
        /\ Done(r1) /\ StagesSucceeded(r1) /\ runs[r1].msg.channel = UnknownChannel
        /\ Done(r2) /\ StagesSucceeded(r2) /\ runs[r2].msg.channel = "email"
        /\ runs[r2].did[4] = "true"

\* ------------------------------------------------- C16
\* the runs that have entered the pipeline (Classify was invoked for them)
Entered == {r \in RunSlots : runs[r].invoked # <<>>}

\* C16: no (channel, message_id) pair starts a pipeline run more than once: no
\* two runs that entered the pipeline carry the same pair
C16_NoPairTwice ==
    \A r, s \in Entered : r # s => PairOf(runs[r].msg) # PairOf(runs[s].msg)

\* ------------------------------------------------- C17
PullCalled == last_call.op = "pull_messages"

\* the pull reaches a transport or parsing error: the request or the search
\* fails, or the item at position `bad` is one the loop does not skip, or (for
\* e-mail) close/logout fails behind the loop
PullFails(ch, seen, resp) ==
    \/ resp.kind \in {"status", "exc"}
    \/ /\ resp.kind = "ok"
       /\ resp.how = "raise"
       /\ \/ /\ resp.bad \in 1..Len(resp.ids)
             /\ resp.ids[resp.bad] \notin seen
             /\ \A j \in 1..(resp.bad - 1) : resp.ids[j] # resp.ids[resp.bad]
          \/ ch = "email" /\ resp.bad = Len(resp.ids) + 1

SendCalled == last_call.op \in {"send_message", "send_response"}

\* the send meets a failure: the provider fails or answers with a non-success
\* status, the channel key has no adapter, or the channel value is missing
SendFails ==
    \/ last_call.provider \in {"status", "exc"}
    \/ last_call.channel = NoneVal
    \/ Lower(last_call.channel.value) \notin Channels

RECURSIVE ReturnedLists(_, _)
ReturnedLists(results, idx) ==
    IF idx > Len(results) THEN <<>>
    ELSE (IF results[idx].kind = "return" THEN results[idx].value ELSE <<>>)
             \o ReturnedLists(results, idx + 1)

\* C19: what pull_all_messages returns is exactly the concatenation of the
\* lists of the adapters whose pull succeeded: each of their messages once, none
\* invented, the order of each adapter kept
C19_ExactConcatenation ==
    PullComplete => messages = ReturnedLists(pull_results, 1)

\* ------------------------------------------------- C20
\* C20: classify_message never raises and always returns a non-null
\* classification (a dictionary with the keys of one); whenever the model call
\* raises or returns a value that cannot be read as a classification, the result
\* is the fallback classification (action_id 'general_inquiry', category
\* 'inquiry', confidence 0.5, customer_id the message's sender)
C20_FallbackWhenUnreadable ==
    last_call.op = "classify_message" =>
        /\ last_call.result.kind = "return"
        /\ last_call.result.value.kind = "dict"
        /\ \A k \in ClassificationFields : last_call.result.value.has[k]
        /\ (\/ last_call.model.kind = "raise"
            \/ last_call.model.value.kind # "dict"
            \/ \E k \in ClassificationFields : ~last_call.model.value.has[k])
               => /\ last_call.result.value.action_id = "general_inquiry"
                  /\ last_call.result.value.category = "inquiry"
                  /\ last_call.result.value.confidence = "0.5"
                  /\ last_call.result.value.customer_id = SenderOf(last_call.message)

\* ================================================= the claims, third part
\* ------------------------------------------------- C21
\* the positions of the loop that are the sleep of an iteration
Sleeps == {"sleeping", "fault_sleep"}

\* C21: an iteration goes from the aggregated pull either to the callback, with
\* the pulled list and only when that list is not empty, or straight to the sleep;
\* after the callback comes one sleep (that of the try block, or that of the
\* handler when the callback raised an Exception); after a sleep comes the test of
\* the next iteration, never a second sleep, and only a sleep leads there
C21_IterationOrder ==
    /\ [](lpc = "callback" => (messages # <<>> /\ messages = PullAllMessages(pull_results)))
    /\ [][lpc = "pulling" /\ lpc' # lpc => lpc' = "gathering"]_vars
    /\ [][lpc = "gathering" /\ lpc' # lpc =>
            \/ lpc' = "callback" /\ messages' # <<>>
            \/ lpc' = "sleeping" /\ messages' = <<>>]_vars
    /\ [][lpc = "callback" /\ lpc' # lpc => lpc' \in Sleeps \cup {"raised"}]_vars
    /\ [][(lpc \in Sleeps /\ lpc' # lpc) => lpc' = "top"]_vars
    /\ [][lpc' = "top" /\ lpc # "top" =>
            lpc \in Sleeps \cup {"idle", "returned", "raised"}]_vars

C21_Witness ==
    /\ lpc = "fault_sleep"
    /\ pulled # {}
    /\ \E c \in PolledChannels : processed_messages[c] = 1..MaxId

\* ------------------------------------------------- C22
\* C22: when every stage call and every send terminates, a run that waits at
\* the gate gets a slot, every run comes to its end, and process_messages
\* returns a list with one element per message, whatever the batch size and the
\* maximum are, and also while other calls are in flight
C22_GateLiveness ==
    /\ \A r \in RunSlots : (runs[r].pc = "waiting") ~> (runs[r].pc # "waiting")
    /\ \A r \in RunSlots : (runs[r].pc \in Stages) ~> Finished(r)
    /\ (call.origin = "direct" /\ ~call.returned) ~> call.returned
    /\ [](call.returned => Len(call.results) = Len(call.messages))

C22_Witness ==
    /\ max_concurrent_tasks = 1
    /\ call.returned
    /\ Len(call.results) = MaxRuns

\* ------------------------------------------------- C23
\* the runs that are inside a stage call or the send
Staged == {r \in RunSlots : InStage(r)}

\* C23: there is no deadline: every run inside a stage call or the send holds a
\* slot of the gate, and it leaves that call only when the call is over; while
\* the N slots are held by runs whose calls do not return, no other run enters a
\* stage, process_messages does not return, and the loop stays in its callback
C23_HungRunsBlock ==
    /\ [](semaphore = max_concurrent_tasks - Cardinality(Staged))
    /\ [][\A r \in Staged : runs'[r] # runs[r] => Len(runs'[r].did) > Len(runs[r].did)]_vars
    /\ [][(semaphore = 0 /\ \A r \in Staged : runs'[r] = runs[r]) =>
            /\ \A r \in RunSlots : runs'[r].pc \in Stages => r \in Staged
            /\ call' = call
            /\ lpc = "callback" => lpc' = "callback"]_vars

C23_Witness ==
    /\ lpc = "callback"
    /\ semaphore = 0
    /\ Cardinality(Staged) = max_concurrent_tasks
    /\ \E r \in RunSlots : runs[r].pc = "waiting"

\* ------------------------------------------------- C24
\* C24: each channel's set of seen ids only grows: whatever happens (a pull, a
\* webhook, the callback, stop, a new start), every id that is in a
\* processed_messages set is in it afterwards
C24_SeenOnlyGrows ==
    [][\A c \in Channels : processed_messages[c] \subseteq processed_messages'[c]]_vars

C24_Witness ==
    /\ lpc = "returned"
    /\ ~is_running
    /\ pulled # {}
    /\ \A c \in Channels : processed_messages[c] = 1..MaxId

\* ------------------------------------------------- C25
Responding == {r \in RunSlots : runs[r].pc = "responding"}

\* C25: a run holds a slot of the gate from before its first stage call until
\* its response send is over: a run that waits for the gate has called nothing
\* and sent nothing, a stage call or a send is in flight exactly in a run that
\* holds a slot, each such run accounts for one slot taken, a run that has left
\* the gate calls and sends nothing more, and the sends in flight never exceed
\* max_concurrent_tasks
C25_SlotHeldThroughout ==
    /\ [](\A r \in RunSlots : runs[r].pc = "waiting" =>
              runs[r].invoked = <<>> /\ runs[r].did = <<>> /\ runs[r].sends = <<>>)
    /\ [](\A r \in Alive : IF InStage(r)
                           THEN Len(runs[r].invoked) = Len(runs[r].did) + 1
                           ELSE Len(runs[r].invoked) = Len(runs[r].did))
    /\ [](Cardinality(Staged) + semaphore = max_concurrent_tasks)
    /\ [](\A r \in Responding : Len(runs[r].sends) = 1)
    /\ [](Cardinality(Responding) <= max_concurrent_tasks)
    /\ [][\A r \in RunSlots : (Finished(r) /\ runs'[r] # runs[r]) => runs'[r].invoked = <<>>]_vars

C25_Witness ==
    /\ max_concurrent_tasks = 1
    /\ \E r \in Responding : \E w \in RunSlots \ {r} : runs[w].pc = "waiting"

\* ------------------------------------------------- C26
\* the values a run for message m can hold in its local variables
OwnClassification(m) == {NoneVal, ClassificationOf(m)}
OwnTask(m) == {NoneVal, TaskOf(m)}
OwnExecution(m) == {NoneVal, FailedExecution} \cup {ExecutionOf(m, st) : st \in {"success", "failed"}}

Compiled(r) == runs[r].outcome # NoneVal /\ runs[r].outcome.status \in {"success", "failed"}

\* C26: the runs share nothing but the gate: whatever the other runs do, the
\* local values of a run, the identity, classification, task and execution of its
\* outcome, and the channel, recipient and content of its send are those of its
\* own message; a compiled outcome carries all three stage results of its message
C26_OwnMessageOnly ==
    \A r \in Alive :
        LET m == runs[r].msg
            out == runs[r].outcome
        IN  /\ runs[r].classification \in OwnClassification(m)
            /\ runs[r].task \in OwnTask(m)
            /\ runs[r].execution \in OwnExecution(m)
            /\ out # NoneVal =>
                  /\ out.message_id = m.message_id
                  /\ out.channel = m.channel
                  /\ out.classification \in OwnClassification(m)
                  /\ out.task \in OwnTask(m)
                  /\ out.execution \in OwnExecution(m)
            /\ Compiled(r) =>
                  /\ out.classification = ClassificationOf(m)
                  /\ out.task = TaskOf(m)
                  /\ out.execution # NoneVal
            /\ \A i \in DOMAIN runs[r].sends :
                  /\ runs[r].sends[i].channel = m.channel
                  /\ runs[r].sends[i].recipient = m.sender
                  /\ runs[r].pc = "responding" =>
                        runs[r].sends[i].content = runs[r].execution.user_response
                  /\ Compiled(r) => runs[r].sends[i].content = out.execution.user_response

C26_Witness ==
    \E r, q \in Alive :
        /\ runs[r].msg.message_id # runs[q].msg.message_id
        /\ Compiled(r)
        /\ runs[r].outcome.status = "success"
        /\ runs[r].outcome.response_sent
        /\ runs[q].pc = "responding"
        /\ runs[q].execution = FailedExecution

\* ------------------------------------------------- C27
\* the pull of channel ch has added and returned ids of its own set only: what it
\* returns are messages of ch whose ids it has added in this step
OwnResult(ch, result) ==
    result.kind = "return" =>
        \A i \in 1..Len(result.value) :
            /\ result.value[i].channel = ch
            /\ result.value[i].message_id \in processed_messages'[ch] \ processed_messages[ch]

\* C27: the pulls that gather runs together share nothing: the step of the
\* e-mail and the Teams pull leaves the WhatsApp set and the running flag alone,
\* the completion of the WhatsApp pull leaves the other two sets, the other two
\* results and the running flag alone, each pull returns ids it has added to its
\* own set, and the list handed on is the one composed, in the order of the
\* adapters, from the three results, whichever pull was over last
C27_PullsShareNothing ==
    /\ [][(lpc = "pulling" /\ lpc' # lpc) =>
             /\ processed_messages'["whatsapp"] = processed_messages["whatsapp"]
             /\ is_running' = is_running
             /\ OwnResult("email", pull_results'[1])
             /\ pull_results'[2] = NotStarted
             /\ OwnResult("teams", pull_results'[3])]_vars
    /\ [][(lpc = "gathering" /\ lpc' # lpc) =>
             /\ processed_messages'["email"] = processed_messages["email"]
             /\ processed_messages'["teams"] = processed_messages["teams"]
             /\ is_running' = is_running
             /\ pull_results'[1] = pull_results[1]
             /\ pull_results'[3] = pull_results[3]
             /\ OwnResult("whatsapp", pull_results'[2])
             /\ messages' = PullAllMessages(pull_results')]_vars

C27_Witness ==
    /\ lpc = "callback"
    /\ \E i, j \in 1..Len(messages) :
          /\ i < j
          /\ messages[i].channel = "email"
          /\ messages[j].channel = "whatsapp"
          /\ messages[i].message_id = messages[j].message_id
    /\ processed_messages["email"] # processed_messages["whatsapp"]

\* ------------------------------------------------- C28
\* the channel value key names adapter c when case is ignored
NamesIgnoringCase(key, c) ==
    /\ key # NoneVal
    /\ \/ key.value = c
       \/ key.value = "Email" /\ c = "email"

\* C28: send_response calls the send of exactly one adapter, the one that its
\* channel value names when case is ignored, and what that send returns is what
\* send_response returns; for every other channel value no adapter's send is
\* called and send_response returns False
C28_DispatchByChannel ==
    last_call.op = "send_response" =>
        LET key == last_call.channel
            named == {c \in Channels : NamesIgnoringCase(key, c)}
        IN  /\ Cardinality(named) <= 1
            /\ last_call.adapters = named
            /\ \A c \in named :
                  LET sm == SendMessageOf(c, last_call.provider)
                  IN  sm.kind = "return" => last_call.result = sm
            /\ named = {} => last_call.result = Return(FALSE)

C28_Witness ==
    /\ last_call.op = "send_response"
    /\ last_call.channel = Str("Email")
    /\ last_call.adapters = {"email"}
    /\ last_call.result = Return(TRUE)

\* ------------------------------------------------- C29
\* what holds of run r once its Execute has raised and the failure was answered:
\* all four stages were called, the one send carries the apology to the sender,
\* and the outcome, once there, is 'failed' with the failed execution result and
\* the result of the send
FailureAnswered(r) ==
    /\ runs[r].invoked = StageOrder
    /\ Len(runs[r].sends) = 1
    /\ runs[r].sends[1].recipient = runs[r].msg.sender
    /\ runs[r].sends[1].content = ApologyText
    /\ Done(r) =>
          /\ runs[r].outcome.status = "failed"
          /\ runs[r].outcome.execution = FailedExecution
          /\ runs[r].outcome.response_sent = (runs[r].sends[1].result = "true")

ExecuteRaised(r) == Len(runs[r].did) >= 3 /\ runs[r].did[3] \in {"exc", "cancel"}

Acknowledging == last_call.op = "mark_as_read"

\* C30: no run and no iteration of the loop calls or awaits mark_as_read: a step
\* in which an acknowledge is called or returns changes nothing of the runs, of
\* the process_messages call, of the loop and of the seen ids, no step of a run
\* or of the loop starts or ends an acknowledge, and while an acknowledge is
\* pending or has failed every run inside a stage can take its next step and the
\* loop can finish its sleep and test its flag
C30_AcknowledgeApart ==
    /\ [][last_call' # last_call =>
             UNCHANGED <<orchVars, is_running, lpc, processed_messages, messages,
                         pull_results, pulled, repeated, iter_fault>>]_vars
    /\ [](Acknowledging =>
             /\ \A r \in RunSlots : InStage(r) => ENABLED GateStep(r)
             /\ lpc = "sleeping" => ENABLED Sleep
             /\ lpc = "top" => ENABLED LoopTest
             /\ (lpc = "callback" /\ AllFinished) => ENABLED CallbackReturn)

C30_Witness ==
    /\ Acknowledging
    /\ last_call.result = Return(FALSE)
    /\ lpc = "callback"
    /\ \E r, q \in RunSlots :
          /\ Done(r) /\ runs[r].outcome.status = "success"
          /\ runs[q].pc = "responding"

\* ================================================= the claims, IDITAPIClient
ActionCalled == last_call.op = "execute_action"

\* the request of the call was sent: the method has a branch
RequestSent ==
    /\ last_call.method # NoneVal
    /\ \E k \in SupportedMethods : last_call.method.value \in {k, "post"}

\* C31 (as claimed): execute_action never raises; a timeout gives success false
\* with status_code 408, every other request error and an unsupported method
\* success false with status_code 500, and for a received response success is
\* true exactly when its status code is from 200 to 299
C31_ActionNeverRaises ==
    ActionCalled =>
        LET b == last_call.backend
            result == last_call.result
        IN  /\ result.kind = "return"
            /\ ~RequestSent => result.value = CreateErrorResponse(500)
            /\ (RequestSent /\ b.kind = "timeout") => result.value = CreateErrorResponse(408)
            /\ (RequestSent /\ b.kind \in {"request_error", "exc"}) =>
                  result.value = CreateErrorResponse(500)
            /\ (RequestSent /\ b.kind = "response") =>
                  result.value.success = (200 <= b.status_code /\ b.status_code < 300)

\* ------------------------------------------------- C32
\* run r has called the service's send_response with an execution result
Responded(r) == Len(runs[r].did) = 4 /\ Len(runs[r].sends) = 1

IdsOf(result) ==
    IF result.kind = "return" THEN {result.value[i].message_id : i \in 1..Len(result.value)}
    ELSE {}

\* C33 (as claimed): every id that a pull of the e-mail or the WhatsApp adapter
\* adds to its seen-id set is the id of a message in the list that this pull
\* returns, also when the pull fails part-way
C33_SeenOnlyIfReturned ==
    (last_call.op = "pull_messages" /\ last_call.channel \in {"email", "whatsapp"}) =>
        (processed_messages[last_call.channel] \ last_call.seen) \subseteq IdsOf(last_call.result)

\* ================================================= the claims, the iterations
Pulling == {"pulling", "gathering"}

\* C34: the iterations of one loop do not overlap: while the pulls of an
\* iteration are under way no run and no process_messages call of an earlier
\* batch exists, a pull starts with no result of an earlier pull pending, the
\* batch is handed on only when all three pulls are joined, and the callback is
\* left only when every run of its batch has finished
C34_IterationsApart ==
    /\ [](lpc \in Pulling => (call.origin = "free" /\ Alive = {}))
    /\ [](lpc = "pulling" => pull_results = <<>>)
    /\ [](lpc = "callback" =>
             /\ Len(pull_results) = 3
             /\ \A idx \in 1..3 : pull_results[idx] # NotStarted)
    /\ [](Alive # {} => lpc = "callback")
    /\ [][(lpc = "callback" /\ lpc' # "callback") =>
             /\ call.origin = "poll"
             /\ \A i \in 1..Len(call.tasks) : Finished(call.tasks[i])
             /\ Len(call.tasks) = Len(messages)]_vars

C34_Witness ==
    /\ lpc = "callback"
    /\ \E r \in RunSlots : InStage(r)
    /\ \E r \in RunSlots : Finished(r)
    /\ \E pair \in pulled : \A i \in 1..Len(messages) : PairOf(messages[i]) # pair

\* ------------------------------------------------- C35
NotLooping == {"idle", "returned", "raised"}

\* C35: start_polling sets the flag whatever it was: a start, also one that
\* follows a stop, leaves the flag true, so that the first test of the new loop
\* goes on to a pull unless a stop comes in between, and the loop returns only
\* from a test that finds the flag false; a start changes neither the seen-id
\* sets nor the gate
C35_StartSetsFlag ==
    /\ [][(lpc \in NotLooping /\ lpc' \notin NotLooping) =>
             /\ lpc' = "top"
             /\ is_running'
             /\ processed_messages' = processed_messages
             /\ semaphore' = semaphore
             /\ max_concurrent_tasks' = max_concurrent_tasks]_vars
    /\ [][(lpc = "top" /\ lpc' # lpc) =>
             lpc' = (IF is_running THEN "pulling" ELSE "returned")]_vars
    /\ [](lpc \in NotLooping => (Alive = {} /\ semaphore = max_concurrent_tasks))

\* a loop has returned after a stop, leaving seen ids behind and the gate free
C35_Witness ==
    /\ lpc = "returned"
    /\ ~is_running
    /\ max_concurrent_tasks = MaxN
    /\ semaphore = max_concurrent_tasks
    /\ \A c \in PolledChannels : processed_messages[c] # {}
    /\ ENABLED Start

\* ================================================= the claims, the agents' fallbacks
FirstStagesRun == last_call.op = "classify_and_create"

\* the model behind an agent has returned an empty dictionary
ReturnedEmpty(o) == o.kind = "return" /\ o.value # NoneVal /\ o.value.kind = "dict" /\ Falsy(o.value)

\* a failure of a model never gives an error outcome: the run goes on to Execute,
\* with the fallback classification when the classification model raised and
\* with the fallback task when the task-creation model raised
ModelFailureAbsorbed ==
    LET m == last_call.message
        co == last_call.model[1]
        to == last_call.model[2]
        res == last_call.result
    IN  /\ (last_call.executor[1] = "runs" /\ co.kind = "raise") =>
              /\ res.branch # "Classification failed"
              /\ res.classification = GetFallbackClassification(m)
              /\ res.classification.action_id = "general_inquiry"
        /\ (last_call.executor = <<"runs", "runs">> /\ to.kind = "raise"
                /\ res.branch # "Classification failed") =>
              /\ res.branch = "execute"
              /\ res.task = GetFallbackTask(res.classification, m)
              /\ res.task.api_endpoint = "/api/v1/tasks/manual"
              /\ res.task.http_method = "POST"

\* C36 (as claimed): a failure of a model is absorbed by the agent's fallback, and
\* the two error branches are reached only when an agent has returned an empty
\* or null result
C36_FallbacksAbsorbFailures ==
    FirstStagesRun =>
        /\ ModelFailureAbsorbed
        /\ last_call.result.branch = "Classification failed" =>
              (last_call.executor[1] = "runs" /\ ReturnedEmpty(last_call.model[1]))
        /\ last_call.result.branch = "Task creation failed" =>
              (last_call.executor[2] = "runs" /\ ReturnedEmpty(last_call.model[2]))

\* C36 (amended): the same, where an error branch is reached also when the
\* wrapper's own awaited call has raised, so that no agent result exists
C36_FallbacksAbsorbModelFailures ==
    FirstStagesRun =>
        /\ ModelFailureAbsorbed
        /\ last_call.result.branch = "Classification failed" <=>
              (last_call.executor[1] = "refused" \/ ReturnedEmpty(last_call.model[1]))
        /\ (last_call.result.branch = "Task creation failed") =>
              (last_call.executor[2] = "refused" \/ ReturnedEmpty(last_call.model[2]))
        /\ (last_call.result.branch # "Classification failed"
                /\ (last_call.executor[2] = "refused" \/ ReturnedEmpty(last_call.model[2]))) =>
              last_call.result.branch = "Task creation failed"

C36_Witness ==
    /\ FirstStagesRun
    /\ last_call.executor = <<"runs", "runs">>
    /\ last_call.model = <<Raise(ExceptionVal), Raise(ExceptionVal)>>
    /\ last_call.result.branch = "execute"
    /\ last_call.result.task.action_type = "general_inquiry"

\* ------------------------------------------------- C37
\* the pairs <<channel, id>> of the messages that the runs alive carry
RunPairs == {PairOf(runs[r].msg) : r \in Alive}

\* C37: no retry in polling mode: the id of every message that a pull has
\* returned is in its channel's seen-id set from that pull on, every run is for a
\* message that a pull has returned and recorded, no two runs alive are for the
\* same message, a pull returns no message that an earlier pull has returned,
\* whatever became of it, and the runs that a callback starts are one for each
\* message of that pull's list
C37_NoRetry ==
    /\ [](\A pair \in pulled : pair[2] \in processed_messages[pair[1]])
    /\ [](RunPairs \subseteq pulled)
    /\ [](Cardinality(RunPairs) = Cardinality(Alive))
    /\ [][(lpc = "gathering" /\ lpc' # lpc) =>
             /\ PairsOf(Return(messages')) \cap pulled = {}
             /\ Cardinality(PairsOf(Return(messages'))) = Len(messages')
             /\ PairsOf(Return(messages')) \subseteq pulled']_vars
    /\ [][(Alive = {} /\ Alive' # {}) =>
             /\ lpc = "callback"
             /\ call'.messages = messages
             /\ Cardinality(Alive') = Len(messages)
             /\ RunPairs' = PairsOf(Return(messages))]_vars
    /\ [][pulled \subseteq pulled']_vars

\* a later iteration's batch is being processed after an iteration whose callback
\* failed: the provider has listed an id again that an earlier pull had returned,
\* and no run is for it
C37_Witness ==
    /\ lpc = "callback"
    /\ repeated
    /\ Alive # {}
    /\ \E r \in Alive : Done(r) /\ runs[r].outcome.status = "error"
    /\ pulled \ RunPairs # {}

\* ------------------------------------------------- C38
\* the call that has just returned
WebhookReturned == last_call.op = "handle_webhook"
PullReturned == last_call.op = "pull_messages" /\ last_call.channel \in WebhookChannels

\* the ids of the messages that the call has returned: the Teams webhook returns
\* one message or None, the other operations a list
ReturnedIds ==
    IF last_call.result.kind # "return" THEN {}
    ELSE IF WebhookReturned /\ last_call.channel = "teams"
         THEN IF last_call.result.value = NoneVal THEN {}
              ELSE {last_call.result.value.message_id}
         ELSE {last_call.result.value[i].message_id : i \in 1..Len(last_call.result.value)}

====
